---- MODULE Spec2Model ----
(***************************************************************************)
(* Auction lifecycle and bidding engine of the Pokemon auction bot         *)
(* (src/main.py).                                                          *)
(*                                                                         *)
(* The database tables items, bids, users and auction_state are the state. *)
(* Every handler is a coroutine on one asyncio event loop: the code        *)
(* between two awaits runs without interruption, and another handler can   *)
(* run only while a handler is suspended in an await.  A handler whose     *)
(* database work is followed by awaits is therefore a task with a program  *)
(* counter, one action per stretch of code between awaits.  Every call to  *)
(* the Telegram API can fail, which is a nondeterministic choice.          *)
(*                                                                         *)
(* Several statements of src/main.py lack their closing parenthesis        *)
(* (lines 109, 1302, 1468, 1488, 1536); they are modelled as the statement *)
(* they evidently are.  NULL is 0 for the integer columns and "" for the   *)
(* text columns.  admin_command_wrapper is declared async (line 1199); it  *)
(* is modelled as the decorator it evidently is: the admin check, then the *)
(* command.                                                                *)
(***************************************************************************)
EXTENDS Integers, Sequences, FiniteSets, TLC

\* ---------------------------------------------------------------- bounds
MaxBids == 3
MaxSubmissions == 2

Users == {1, 2, 3}
ItemIds == {"A0001", "B0002"}
\* at most two handlers are suspended in an await at a time
Tasks == {1, 2}

\* ------------------------------------------------------------- constants
ADMIN_IDS == {1}

NoItem == [status |-> "absent"]
NoUser == [exists |-> FALSE]
NoReply ==
    [op |-> "none", outcome |-> "none", minimum |-> 0,
     user |-> 0, item_id |-> "", amount |-> 0, notified |-> {}]
NoLocal == [op |-> "none"]

VARIABLES
    submissions_open,  \* auction_state.submissions_open
    bidding_open,      \* auction_state.bidding_open
    items,             \* items table: item_id -> row, or NoItem
    bids,              \* bids table, in bid_id order
    users,             \* users table: user_id -> row, or NoUser
    conv,              \* ConversationHandler state of each user's wizard
    user_data,         \* context.user_data['item_type'] of each user
    pc,                \* where each suspended handler is
    local,             \* the local variables of each suspended handler
    reply              \* what the handler that just ran told its caller

vars == <<submissions_open, bidding_open, items, bids, users, conv,
          user_data, pc, local, reply>>

db == <<submissions_open, bidding_open, items, bids, users>>

\* ------------------------------------------------------------ helpers
is_admin(user_id) == user_id \in ADMIN_IDS

\* the two columns read in the wrong order
get_auction_state_swapped == <<bidding_open, submissions_open>>

\* lines 161-167
get_auction_state == <<submissions_open, bidding_open>>

\* user.first_name
Name(u) == <<"Ash", "Misty", "Brock", "Gary">>[u]

NewUser ==
    [exists |-> TRUE, is_banned |-> FALSE, submissions_count |-> 0,
     approved_count |-> 0, rejected_count |-> 0, bids_count |-> 0,
     wins_count |-> 0]

NewItem(u, type, price) ==
    [user_id |-> u, item_type |-> type, base_price |-> price,
     status |-> "pending", approval_time |-> 0, highest_bid |-> 0,
     highest_bidder_id |-> 0, highest_bidder_name |-> ""]

\* the price a handler would use if it never looked at highest_bid
CurrentBid_basePrice(item) == item.base_price

\* line 785: highest_bid if it is truthy, else base_price
CurrentBid(item) ==
    IF item.highest_bid # 0 THEN item.highest_bid ELSE item.base_price

\* lines 795-799
Increment(current_bid) ==
    IF current_bid >= 50000 THEN 5000
    ELSE IF current_bid >= 20000 THEN 2000
    ELSE 1000

Init ==
    /\ submissions_open = FALSE
    /\ bidding_open = FALSE
    /\ items = [i \in ItemIds |-> NoItem]
    /\ bids = <<>>
    /\ users = [u \in Users |-> NoUser]
    /\ conv = [u \in Users |-> "END"]
    /\ user_data = [u \in Users |-> ""]
    /\ pc = [t \in Tasks |-> "idle"]
    /\ local = [t \in Tasks |-> NoLocal]
    /\ reply = NoReply

\* what a handler tells its caller: the operation, its outcome and, for a
\* bid below the required increment, the minimum the message names
Say(op, outcome) == [NoReply EXCEPT !.op = op, !.outcome = outcome]

\* the answer to a command of the auction phases, and who sent the command
SayAdmin(op, a, outcome) == [Say(op, outcome) EXCEPT !.user = a]

\* the answer to /bid <item_id> <amount> of user u
SayBid(u, item_id, amount, outcome, minimum) ==
    [op |-> "bid", outcome |-> outcome, minimum |-> minimum,
     user |-> u, item_id |-> item_id, amount |-> amount, notified |-> {}]

\* a handler that suspends takes the first free task slot
FreeSlot(T, t) == pc[t] = "idle" /\ \A s \in T : s < t => pc[s] # "idle"

\* ------------------------------------------------- phase controller
\* a /starto that flips the flags instead of setting them
starto_toggle(a) ==
    /\ IF is_admin(a)
       THEN /\ submissions_open' = ~submissions_open
            /\ bidding_open' = ~bidding_open
            /\ reply' = SayAdmin("starto", a, "ok")
       ELSE /\ UNCHANGED <<submissions_open, bidding_open>>
            /\ reply' = SayAdmin("starto", a, "AdminOnly")
    /\ UNCHANGED <<items, bids, users, conv, user_data, pc, local>>

starto(a) ==
    /\ IF is_admin(a)
       THEN /\ submissions_open' = TRUE
            /\ bidding_open' = TRUE
            /\ reply' = SayAdmin("starto", a, "ok")
       ELSE /\ UNCHANGED <<submissions_open, bidding_open>>
            /\ reply' = SayAdmin("starto", a, "AdminOnly")
    /\ UNCHANGED <<items, bids, users, conv, user_data, pc, local>>

\* a /submito that closes bidding too
submito_closesBoth(a) ==
    /\ IF is_admin(a)
       THEN /\ submissions_open' = FALSE
            /\ bidding_open' = FALSE
            /\ reply' = SayAdmin("submito", a, "ok")
       ELSE /\ UNCHANGED <<submissions_open, bidding_open>>
            /\ reply' = SayAdmin("submito", a, "AdminOnly")
    /\ UNCHANGED <<items, bids, users, conv, user_data, pc, local>>

submito(a) ==
    /\ IF is_admin(a)
       THEN /\ submissions_open' = FALSE
            /\ reply' = SayAdmin("submito", a, "ok")
       ELSE /\ UNCHANGED submissions_open
            /\ reply' = SayAdmin("submito", a, "AdminOnly")
    /\ UNCHANGED <<bidding_open, items, bids, users, conv, user_data, pc, local>>

\* ------------------------------------------------- submission wizard
RECURSIVE SumOver(_, _)
SumOver(S, f) ==
    IF S = {} THEN 0
    ELSE LET x == CHOOSE y \in S : TRUE IN f[x] + SumOver(S \ {x}, f)

\* the number of items ever created: every insert of an item adds one to
\* its owner's submissions_count in the same commit, and no row of users
\* is ever deleted
Submitted ==
    SumOver(Users, [u \in Users |->
        IF users[u] = NoUser THEN 0 ELSE users[u].submissions_count])

\* /add, the entry point of the conversation
add(u) ==
    /\ conv[u] = "END"
    /\ IF ~get_auction_state[1]
       THEN /\ reply' = Say("add", "SubmissionsClosed")
            /\ UNCHANGED conv
       ELSE IF user_data[u] # ""
       THEN /\ reply' = Say("add", "InProgress")
            /\ UNCHANGED conv
       ELSE /\ reply' = Say("add", "ok")
            /\ conv' = [conv EXCEPT ![u] = "POKE_CATEGORY"]
    /\ UNCHANGED <<db, user_data, pc, local>>

\* The first handler of state POKE_CATEGORY has no pattern, so it takes
\* every button, "item_tm" too: item_type is always 'pokemon'.  The steps
\* that only fill user_data with the descriptive payload (name, info,
\* IV/EV, moveset, boosted) are folded into this one.
poke_category(u, data) ==
    /\ conv[u] = "POKE_CATEGORY"
    /\ IF data = "cancel"
       THEN /\ conv' = [conv EXCEPT ![u] = "END"]
            /\ UNCHANGED user_data
            /\ reply' = Say("poke_category", "cancelled")
       ELSE /\ user_data' = [user_data EXCEPT ![u] = "pokemon"]
            /\ conv' = [conv EXCEPT ![u] = "POKE_PRICE"]
            /\ reply' = Say("poke_category", "ok")
    /\ UNCHANGED <<db, pc, local>>

\* random.choice / random.choices: any id of the key space
generate_item_id(Ids) == Ids

\* a table whose item_id is no key: the INSERT never fails
PrimaryKeyFree_noKey(item_id) == TRUE

\* line 47, item_id TEXT PRIMARY KEY: an INSERT of a row with item_id
\* succeeds only if no row of items has that id
PrimaryKeyFree(item_id) == items[item_id] = NoItem

\* poke_price with a valid price runs complete_submission.  An id that is
\* already a key of items makes the INSERT raise: nothing is committed and
\* the conversation stays where it is.  A failure to send the preview or
\* the confirmation raises after the commit: user_data is not cleared.
complete_submission(u, base_price, Ids) ==
    /\ conv[u] = "POKE_PRICE"
    /\ Submitted < MaxSubmissions
    /\ \E item_id \in generate_item_id(Ids), sent \in BOOLEAN :
        IF ~PrimaryKeyFree(item_id)
        THEN /\ reply' = Say("submit", "IntegrityError")
             /\ UNCHANGED <<items, users, conv, user_data>>
        ELSE /\ LET row == IF users[u] = NoUser THEN NewUser ELSE users[u]
                IN users' = [users EXCEPT ![u] =
                       [row EXCEPT !.submissions_count = @ + 1]]
             /\ items' = [items EXCEPT ![item_id] =
                             NewItem(u, user_data[u], base_price)]
             /\ IF sent
                THEN /\ user_data' = [user_data EXCEPT ![u] = ""]
                     /\ conv' = [conv EXCEPT ![u] = "END"]
                     /\ reply' = Say("submit", "submitted")
                ELSE /\ UNCHANGED <<conv, user_data>>
                     /\ reply' = Say("submit", "error")
    /\ UNCHANGED <<submissions_open, bidding_open, bids, pc, local>>

\* /cancel, the fallback of the conversation
cancel(u) ==
    /\ conv[u] # "END"
    /\ user_data' = [user_data EXCEPT ![u] = ""]
    /\ conv' = [conv EXCEPT ![u] = "END"]
    /\ reply' = Say("cancel", "cancelled")
    /\ UNCHANGED <<db, pc, local>>

\* ------------------------------------------------- item lifecycle
\* an UPDATE that adds one to every counter of the row
BumpUser_everyCounter(u, field) ==
    IF users[u] = NoUser THEN users
    ELSE [users EXCEPT ![u] =
            [@ EXCEPT !.approved_count = @ + 1, !.rejected_count = @ + 1,
                      !.bids_count = @ + 1]]

\* UPDATE users SET <field> = <field> + 1 WHERE user_id = u
BumpUser(u, field) ==
    IF users[u] = NoUser THEN users
    ELSE [users EXCEPT ![u] = [@ EXCEPT ![field] = @ + 1]]

\* what the callback of the approve and reject buttons answers to admin a
SayDecide(a, item_id, outcome) ==
    [Say("decide", outcome) EXCEPT !.user = a, !.item_id = item_id]

\* the callback without the test of line 616
admin_approval_callback_noPendingCheck(a, item_id, action) ==
    /\ IF ~is_admin(a)
       THEN /\ reply' = SayDecide(a, item_id, "AdminOnly")
            /\ UNCHANGED <<items, users>>
       ELSE IF items[item_id] = NoItem
       THEN /\ reply' = SayDecide(a, item_id, "NotFound")
            /\ UNCHANGED <<items, users>>
       ELSE IF action = "approve"
       THEN /\ items' = [items EXCEPT ![item_id] =
                 [@ EXCEPT !.status = "approved", !.approval_time = 1]]
            /\ users' = BumpUser(items[item_id].user_id, "approved_count")
            /\ reply' = SayDecide(a, item_id, "approved")
       ELSE /\ items' = [items EXCEPT ![item_id] = [@ EXCEPT !.status = "rejected"]]
            /\ users' = BumpUser(items[item_id].user_id, "rejected_count")
            /\ reply' = SayDecide(a, item_id, "rejected")
    /\ UNCHANGED <<submissions_open, bidding_open, bids, conv, user_data, pc, local>>

\* lines 595-676.  Nothing is awaited between the SELECT at 608 and the
\* commit at 632 or 663; what the handler awaits after the commit changes
\* no column of the model.
admin_approval_callback(a, item_id, action) ==
    /\ IF ~is_admin(a)
       THEN /\ reply' = SayDecide(a, item_id, "AdminOnly")
            /\ UNCHANGED <<items, users>>
       ELSE IF items[item_id] = NoItem
       THEN /\ reply' = SayDecide(a, item_id, "NotFound")
            /\ UNCHANGED <<items, users>>
       ELSE IF items[item_id].status # "pending"
       THEN /\ reply' = SayDecide(a, item_id, "AlreadyDecided")
            /\ UNCHANGED <<items, users>>
       ELSE IF action = "approve"
       THEN /\ items' = [items EXCEPT ![item_id] =
                 [@ EXCEPT !.status = "approved", !.approval_time = 1]]
            /\ users' = BumpUser(items[item_id].user_id, "approved_count")
            /\ reply' = SayDecide(a, item_id, "approved")
       ELSE /\ items' = [items EXCEPT ![item_id] = [@ EXCEPT !.status = "rejected"]]
            /\ users' = BumpUser(items[item_id].user_id, "rejected_count")
            /\ reply' = SayDecide(a, item_id, "rejected")
    /\ UNCHANGED <<submissions_open, bidding_open, bids, conv, user_data, pc, local>>

\* /endo only shows the confirm and cancel buttons
endo(a) ==
    /\ reply' = Say("endo", IF is_admin(a) THEN "confirm?" ELSE "AdminOnly")
    /\ UNCHANGED <<db, conv, user_data, pc, local>>

\* a cleanup that takes the approved items too
Cleanable_withApproved == {"sold", "ended", "rejected", "cancelled", "approved"}

Cleanable == {"sold", "ended", "rejected", "cancelled"}

\* a cleanup that empties the bid history
SelectBids_dropAll(rows, keep) == <<>>

\* a cleanup that forgets the second DELETE
SelectBids_keepAll(rows, keep) == rows

\* lines 1342-1345: the bids whose item is still in items
RECURSIVE SelectBids(_, _)
SelectBids(rows, keep) ==
    IF rows = <<>> THEN <<>>
    ELSE IF Head(rows).item_id \in keep
         THEN <<Head(rows)>> \o SelectBids(Tail(rows), keep)
         ELSE SelectBids(Tail(rows), keep)

\* the answer to the buttons of /endo; the handler does not look at who
\* pressed the button
endo_callback(a, data) ==
    /\ IF data = "confirm_endo"
       THEN LET kept == [i \in ItemIds |->
                            IF items[i].status \in Cleanable THEN NoItem
                            ELSE items[i]]
            IN /\ items' = kept
               /\ bids' = SelectBids(bids, {i \in ItemIds : kept[i] # NoItem})
               /\ reply' = SayAdmin("endo_callback", a, "cleaned")
       ELSE /\ UNCHANGED <<items, bids>>
            /\ reply' = SayAdmin("endo_callback", a, "cancelled")
    /\ UNCHANGED <<submissions_open, bidding_open, users, conv, user_data, pc, local>>

\* the answer to /aban and /unban carried out for admin a: the notice goes
\* to the user u the command names (1503-1515, 1570-1577), and the answer
\* says that u has been banned or unbanned whether or not the UPDATE
\* found a row (1517-1520, 1579-1581)
SayBan(op, a, u, outcome) == [SayAdmin(op, a, outcome) EXCEPT !.notified = {u}]

\* a /aban that closes bidding too
aban_closesBidding(a, u) ==
    /\ IF is_admin(a)
       THEN /\ users' = IF users[u] = NoUser THEN users
                        ELSE [users EXCEPT ![u] = [@ EXCEPT !.is_banned = TRUE]]
            /\ bidding_open' = FALSE
            /\ reply' = SayBan("aban", a, u, "banned")
       ELSE /\ UNCHANGED <<users, bidding_open>>
            /\ reply' = SayAdmin("aban", a, "AdminOnly")
    /\ UNCHANGED <<submissions_open, items, bids, conv, user_data, pc, local>>

\* /aban and /unban by user id: the UPDATE changes a row only if there is one
aban(a, u) ==
    /\ IF is_admin(a)
       THEN /\ users' = IF users[u] = NoUser THEN users
                        ELSE [users EXCEPT ![u] = [@ EXCEPT !.is_banned = TRUE]]
            /\ reply' = SayBan("aban", a, u, "banned")
       ELSE /\ UNCHANGED users
            /\ reply' = SayAdmin("aban", a, "AdminOnly")
    /\ UNCHANGED <<submissions_open, bidding_open, items, bids, conv, user_data, pc, local>>

unban(a, u) ==
    /\ IF is_admin(a)
       THEN /\ users' = IF users[u] = NoUser THEN users
                        ELSE [users EXCEPT ![u] = [@ EXCEPT !.is_banned = FALSE]]
            /\ reply' = SayBan("unban", a, u, "unbanned")
       ELSE /\ UNCHANGED users
            /\ reply' = SayAdmin("unban", a, "AdminOnly")
    /\ UNCHANGED <<submissions_open, bidding_open, items, bids, conv, user_data, pc, local>>

\* ------------------------------------------------- bidding engine
\* line 762: banned when there is a row of users and it says so
IsBanned(u) == users[u] # NoUser /\ users[u].is_banned

\* a handler that validates against the row another handler, still
\* suspended after its own commit, had read before that commit
BiddableItem_stale(item_id) ==
    IF items[item_id] # NoItem /\ items[item_id].status = "approved"
    THEN IF \E t \in Tasks : local[t].op = "bid" /\ local[t].item_id = item_id
         THEN LET t == CHOOSE s \in Tasks :
                           local[s].op = "bid" /\ local[s].item_id = item_id
              IN [items[item_id] EXCEPT
                    !.highest_bid = local[t].item.highest_bid,
                    !.highest_bidder_id = local[t].item.highest_bidder_id,
                    !.highest_bidder_name = local[t].item.highest_bidder_name]
         ELSE items[item_id]
    ELSE NoItem

\* a SELECT without the condition on the status
BiddableItem_anyStatus(item_id) == items[item_id]

\* lines 768-772: the row the handler reads, approved items only
BiddableItem(item_id) ==
    IF items[item_id] # NoItem /\ items[item_id].status = "approved"
    THEN items[item_id] ELSE NoItem

\* the tier taken from the submitted amount instead of the current price
BidIncrementOfAmount(item, amount) == Increment(amount)

\* the increment the handler requires for a bid of amount on item
BidIncrement(item, amount) == Increment(CurrentBid(item))

\* a handler content with any amount above the current price
MinimumBid_noIncrement(item, amount) == CurrentBid(item) + 1

\* line 804: the minimum the handler names
MinimumBid(item, amount) == CurrentBid(item) + BidIncrement(item, amount)

\* the checks with the item looked up before the ban
BidOutcome_itemBeforeBan(u, item_id, amount) ==
    LET item == BiddableItem(item_id) IN
    IF ~get_auction_state[2] THEN "BiddingClosed"
    ELSE IF item = NoItem THEN "ItemNotBiddable"
    ELSE IF IsBanned(u) THEN "BidderBanned"
    ELSE IF u = item.user_id THEN "SelfBidForbidden"
    ELSE IF amount <= CurrentBid(item) THEN "BidNotHigher"
    ELSE IF amount < MinimumBid(item, amount) THEN "BidTooLow"
    ELSE "ok"

\* the checks without the comparison of bidder and owner
BidOutcome_noOwnerCheck(u, item_id, amount) ==
    LET item == BiddableItem(item_id) IN
    IF ~get_auction_state[2] THEN "BiddingClosed"
    ELSE IF IsBanned(u) THEN "BidderBanned"
    ELSE IF item = NoItem THEN "ItemNotBiddable"
    ELSE IF amount <= CurrentBid(item) THEN "BidNotHigher"
    ELSE IF amount < MinimumBid(item, amount) THEN "BidTooLow"
    ELSE "ok"

\* lines 750-807: the checks of /bid, in the order of the code
BidOutcome(u, item_id, amount) ==
    LET item == BiddableItem(item_id) IN
    IF ~get_auction_state[2] THEN "BiddingClosed"
    ELSE IF IsBanned(u) THEN "BidderBanned"
    ELSE IF item = NoItem THEN "ItemNotBiddable"
    ELSE IF u = item.user_id THEN "SelfBidForbidden"
    ELSE IF amount <= CurrentBid(item) THEN "BidNotHigher"
    ELSE IF amount < MinimumBid(item, amount) THEN "BidTooLow"
    ELSE "ok"

\* lines 817-822
ApplyBidToItem(item, u, amount) ==
    [item EXCEPT !.highest_bid = amount, !.highest_bidder_id = u,
                 !.highest_bidder_name = Name(u)]

\* lines 825-830
BidRow(item_id, u, amount) ==
    [item_id |-> item_id, user_id |-> u, first_name |-> Name(u), amount |-> amount]

\* the columns of the row read at 772 that the handler uses after the commit
BidSnapshot(item) ==
    [user_id |-> item.user_id, highest_bid |-> item.highest_bid,
     highest_bidder_id |-> item.highest_bidder_id,
     highest_bidder_name |-> item.highest_bidder_name]

\* /bid from line 749 on, that is with two arguments and a positive
\* amount, up to the first await of the path taken.  No path awaits
\* between reading auction_state (750) and the commit (838).
bid(t, u, item_id, amount) ==
    /\ pc[t] = "idle"
    /\ LET outcome == BidOutcome(u, item_id, amount)
           item == items[item_id]
       IN
       IF outcome = "BidTooLow"
       THEN /\ reply' = SayBid(u, item_id, amount, "BidTooLow",
                                 MinimumBid(item, amount))
            /\ UNCHANGED <<items, bids, users, pc, local>>
       ELSE IF outcome = "BidNotHigher"
       THEN /\ reply' = SayBid(u, item_id, amount, "BidTooLow", 0)
            /\ UNCHANGED <<items, bids, users, pc, local>>
       ELSE IF outcome # "ok"
       THEN /\ reply' = SayBid(u, item_id, amount, outcome, 0)
            /\ UNCHANGED <<items, bids, users, pc, local>>
       ELSE \E stored \in BOOLEAN :
            IF ~stored
            THEN \* a statement of the transaction raised: rollback at 891
                 /\ reply' = SayBid(u, item_id, amount, "BidProcessingFailed", 0)
                 /\ UNCHANGED <<items, bids, users, pc, local>>
            ELSE /\ Len(bids) < MaxBids
                 /\ items' = [items EXCEPT ![item_id] = ApplyBidToItem(item, u, amount)]
                 /\ bids' = Append(bids, BidRow(item_id, u, amount))
                 /\ users' = BumpUser(u, "bids_count")
                 /\ pc' = [pc EXCEPT ![t] = "bid_edit"]
                 /\ local' = [local EXCEPT ![t] =
                        [op |-> "bid", user |-> u, item_id |-> item_id,
                         amount |-> amount, item |-> BidSnapshot(item)]]
                 /\ reply' = NoReply
    /\ UNCHANGED <<submissions_open, bidding_open, conv, user_data>>

\* line 856, inside the try of the transaction: when editing the channel
\* message raises, the except clause rolls back (nothing is left to roll
\* back) and tells the bidder that the bid failed
bid_edit(t) ==
    /\ pc[t] = "bid_edit"
    /\ \E edited \in BOOLEAN :
        IF edited
        THEN /\ pc' = [pc EXCEPT ![t] = "bid_notify"]
             /\ reply' = NoReply
             /\ UNCHANGED local
        ELSE /\ pc' = [pc EXCEPT ![t] = "idle"]
             /\ local' = [local EXCEPT ![t] = NoLocal]
             /\ reply' = SayBid(local[t].user, local[t].item_id, local[t].amount,
                                 "BidProcessingFailed", 0)
    /\ UNCHANGED <<db, conv, user_data>>

\* lines 864-873: the outbid notice goes to the highest bidder of the row
\* read at 767-770, before the bid was stored, if there is one and it is
\* not the bidder
OutbidNotice(item, u) ==
    IF item.highest_bidder_id # 0 /\ item.highest_bidder_id # u
    THEN {item.highest_bidder_id} ELSE {}

\* lines 876-883: the notice of the new bid goes to the owner of the item
NewBidNotice(item) == {item.user_id}

\* lines 864-888: the outbid notice and the notice to the seller (their
\* failures are swallowed), then the confirmation to the bidder, which is
\* still inside the try
bid_notify(t) ==
    /\ pc[t] = "bid_notify"
    /\ \E outbid_sent, seller_sent, replied \in BOOLEAN :
        reply' = [SayBid(local[t].user, local[t].item_id, local[t].amount,
                         IF replied THEN "BidPlaced" ELSE "BidProcessingFailed", 0)
                    EXCEPT !.notified = OutbidNotice(local[t].item, local[t].user)
                                            \cup NewBidNotice(local[t].item)]
    /\ pc' = [pc EXCEPT ![t] = "idle"]
    /\ local' = [local EXCEPT ![t] = NoLocal]
    /\ UNCHANGED <<db, conv, user_data>>

\* a prompt that adds the increment of the lowest tier whatever the price
PromptMinimum_lowestTier(item) ==
    (IF item.highest_bid # 0 THEN item.highest_bid ELSE item.base_price) + 1000

\* lines 918-925: the minimum the prompt advertises, computed by the
\* handler of the button on its own
PromptMinimum(item) ==
    LET current_bid == IF item.highest_bid # 0 THEN item.highest_bid
                       ELSE item.base_price
        increment == IF current_bid >= 50000 THEN 5000
                     ELSE IF current_bid >= 20000 THEN 2000
                     ELSE 1000
    IN current_bid + increment

\* the button "Place Bid" of the listing of item_id (898-935): the handler
\* reads the approved item and sends the command to use and the minimum
\* bid to whoever pressed the button; it does not look at bidding_open
bid_prompt_callback(item_id) ==
    /\ reply' = IF items[item_id] # NoItem /\ items[item_id].status = "approved"
                THEN [Say("bid_prompt", "prompt") EXCEPT
                         !.item_id = item_id,
                         !.minimum = PromptMinimum(items[item_id])]
                ELSE [Say("bid_prompt", "ItemNotBiddable") EXCEPT
                         !.item_id = item_id]
    /\ UNCHANGED <<db, conv, user_data, pc, local>>

\* ------------------------------------------------- auction closer
\* the rows of the given items with the columns the SELECT at 1256 names
\* (name is NULL for an item that is no pokemon)
BidoRowsOf(sellable) ==
    [i \in sellable |->
        [item_id |-> i,
         user_id |-> items[i].user_id,
         highest_bidder_id |-> items[i].highest_bidder_id,
         highest_bid |-> items[i].highest_bid,
         has_name |-> items[i].item_type = "pokemon"]]

\* a SELECT without the condition on highest_bidder_id
BidoRows_allApproved ==
    BidoRowsOf({j \in ItemIds : items[j].status = "approved"})

\* lines 1255-1260: the approved items that have a highest bidder
BidoRows ==
    BidoRowsOf({j \in ItemIds : /\ items[j].status = "approved"
                                /\ items[j].highest_bidder_id # 0})

\* lines 1270-1281: the text of the winner's notice reads item['username'],
\* a column the SELECT at 1256 did not fetch; building it raises inside the
\* try and send_message is never called
WinnerNotice(row) ==
    IF "username" \in DOMAIN row THEN {row.highest_bidder_id} ELSE {}

\* lines 1284-1295: the notice to the seller, built from fetched columns
SellerNotice(row) == {row.user_id}

\* what one turn of the loop of /bido sends out: the item, the winning bid
\* and the users it writes to
SayBido(row) ==
    [op |-> "bido", outcome |-> "sold", minimum |-> 0, user |-> row.user_id,
     item_id |-> row.item_id, amount |-> row.highest_bid,
     notified |-> WinnerNotice(row) \cup SellerNotice(row)]

\* a loop without the try around the winner's notice: the fault in
\* building it ends the handler
bido_item_noTry(t, rows) ==
    IF DOMAIN rows = {}
    THEN /\ pc' = [pc EXCEPT ![t] = "bido_done"]
         /\ local' = [local EXCEPT ![t] = [op |-> "bido", rows |-> rows, item |-> ""]]
         /\ reply' = NoReply
    ELSE \E item_id \in DOMAIN rows :
            IF ~rows[item_id].has_name \/ WinnerNotice(rows[item_id]) = {}
            THEN /\ pc' = [pc EXCEPT ![t] = "idle"]
                 /\ local' = [local EXCEPT ![t] = NoLocal]
                 /\ reply' = Say("bido", "error")
            ELSE /\ pc' = [pc EXCEPT ![t] = "bido_sold"]
                 /\ local' = [local EXCEPT ![t] =
                                 [op |-> "bido",
                                  rows |-> [i \in DOMAIN rows \ {item_id} |-> rows[i]],
                                  item |-> item_id]]
                 /\ reply' = SayBido(rows[item_id])

\* the loop of /bido from its head to its next await (1266-1295, 1306).
\* rows are the rows the loop has not come to yet; they are in no
\* specified order.  With no row left the handler goes on to the closing
\* message.  A row whose name is NULL makes line 1267 read
\* item['tm_number'], a column the SELECT did not fetch: the handler stops
\* there.  Building the winner's notice reads item['username'], which is
\* not fetched either: that raises inside the try, nothing is sent to the
\* winner and nothing is awaited.  The handler is then suspended in the
\* send_message to the seller at 1285, with the item of the row still to
\* be updated.
bido_item(t, rows) ==
    IF DOMAIN rows = {}
    THEN /\ pc' = [pc EXCEPT ![t] = "bido_done"]
         /\ local' = [local EXCEPT ![t] = [op |-> "bido", rows |-> rows, item |-> ""]]
         /\ reply' = NoReply
    ELSE \E item_id \in DOMAIN rows :
            IF ~rows[item_id].has_name
            THEN /\ pc' = [pc EXCEPT ![t] = "idle"]
                 /\ local' = [local EXCEPT ![t] = NoLocal]
                 /\ reply' = Say("bido", "error")
            ELSE /\ pc' = [pc EXCEPT ![t] = "bido_sold"]
                 /\ local' = [local EXCEPT ![t] =
                                 [op |-> "bido",
                                  rows |-> [i \in DOMAIN rows \ {item_id} |-> rows[i]],
                                  item |-> item_id]]
                 /\ reply' = SayBido(rows[item_id])

\* /bido up to its first await: close bidding, select the rows and go into
\* the loop
bido(t, a) ==
    /\ pc[t] = "idle"
    /\ IF ~is_admin(a)
       THEN /\ reply' = SayAdmin("bido", a, "AdminOnly")
            /\ UNCHANGED <<bidding_open, pc, local>>
       ELSE /\ bidding_open' = FALSE
            /\ bido_item(t, BidoRows)
    /\ UNCHANGED <<submissions_open, items, bids, users, conv, user_data>>

\* a closing that marks the item ended instead of sold
bido_sold_ended(t) ==
    /\ pc[t] = "bido_sold"
    /\ items' = IF items[local[t].item] = NoItem THEN items
                ELSE [items EXCEPT ![local[t].item] = [@ EXCEPT !.status = "ended"]]
    /\ bido_item(t, local[t].rows)
    /\ UNCHANGED <<submissions_open, bidding_open, bids, users, conv, user_data>>

\* a closing that counts the win of the highest bidder
bido_sold_countsWin(t) ==
    /\ pc[t] = "bido_sold"
    /\ items' = IF items[local[t].item] = NoItem THEN items
                ELSE [items EXCEPT ![local[t].item] = [@ EXCEPT !.status = "sold"]]
    /\ users' = IF items[local[t].item] = NoItem THEN users
                ELSE BumpUser(items[local[t].item].highest_bidder_id, "wins_count")
    /\ bido_item(t, local[t].rows)
    /\ UNCHANGED <<submissions_open, bidding_open, bids, conv, user_data>>

\* after the await of the notice to the seller (1297-1304): the item of
\* the row is set to sold, whatever its status is by then, and the loop
\* goes on to its next await
bido_sold(t) ==
    /\ pc[t] = "bido_sold"
    /\ items' = IF items[local[t].item] = NoItem THEN items
                ELSE [items EXCEPT ![local[t].item] = [@ EXCEPT !.status = "sold"]]
    /\ bido_item(t, local[t].rows)
    /\ UNCHANGED <<submissions_open, bidding_open, bids, users, conv, user_data>>

\* lines 1306-1312
bido_done(t) ==
    /\ pc[t] = "bido_done"
    /\ pc' = [pc EXCEPT ![t] = "idle"]
    /\ local' = [local EXCEPT ![t] = NoLocal]
    /\ reply' = Say("bido", "closed")
    /\ UNCHANGED <<db, conv, user_data>>

\* ------------------------------------------------- specifications
\* the application takes the next update off its queue; by then the
\* answer of the handler that ran before has gone out
next_update ==
    /\ reply # NoReply
    /\ reply' = NoReply
    /\ UNCHANGED <<db, conv, user_data, pc, local>>

\* a handler runs when the application has taken its update
Ready == reply = NoReply

\* the handlers an update starts, with their arguments drawn from the
\* given sets
Start(T, Ids, Submitters, Bidders, Prices, Amounts) ==
    \/ \E a \in Users : Ready /\ starto(a)
    \/ \E a \in Users : Ready /\ submito(a)
    \/ \E u \in Submitters : Ready /\ add(u)
    \/ \E u \in Submitters, data \in {"poke_0l", "item_tm", "cancel"} :
          Ready /\ poke_category(u, data)
    \/ \E u \in Submitters, price \in Prices :
          Ready /\ complete_submission(u, price, Ids)
    \/ \E u \in Submitters : Ready /\ cancel(u)
    \/ \E a \in Users, i \in Ids, action \in {"approve", "reject"} :
          Ready /\ admin_approval_callback(a, i, action)
    \/ \E a \in Users : Ready /\ endo(a)
    \/ \E a \in Users, data \in {"confirm_endo", "cancel_endo"} :
          Ready /\ endo_callback(a, data)
    \/ \E a \in Users, u \in Bidders : Ready /\ aban(a, u)
    \/ \E a \in Users, u \in Bidders : Ready /\ unban(a, u)
    \/ \E t \in T, u \in Bidders, i \in Ids, amount \in Amounts :
          Ready /\ FreeSlot(T, t) /\ bid(t, u, i, amount)
    \/ \E t \in T, a \in Users : Ready /\ FreeSlot(T, t) /\ bido(t, a)
    \/ \E i \in Ids : Ready /\ bid_prompt_callback(i)

\* a suspended handler goes on after its await
Resume(T) ==
    \/ \E t \in T : Ready /\ bid_edit(t)
    \/ \E t \in T : Ready /\ bid_notify(t)
    \/ \E t \in T : Ready /\ bido_sold(t)
    \/ \E t \in T : Ready /\ bido_done(t)

\* handlers run as coroutines of one event loop: while one is suspended in
\* an await another can start or go on
NextOver(T, Ids, Submitters, Bidders, Prices, Amounts) ==
    \/ Start(T, Ids, Submitters, Bidders, Prices, Amounts)
    \/ Resume(T)
    \/ next_update

\* no handler is suspended in an await
Quiet == \A t \in Tasks : pc[t] = "idle"

\* two handlers in flight on one item
Next == NextOver(Tasks, {"A0001"}, {2}, {1, 3}, {19000}, {19500, 20000, 22000})

Spec == Init /\ [][Next]_vars

\* bidders who have a row in users, one handler at a time
NextUsers == NextOver({1}, {"A0001"}, {2, 3}, {2, 3}, {19000}, {19500, 20000, 22000})

SpecUsers == Init /\ [][NextUsers]_vars

\* two items, one handler at a time
NextItems == NextOver({1}, ItemIds, {2}, {1, 3}, {19000}, {20000, 22000})

SpecItems == Init /\ [][NextItems]_vars

\* prices on both sides of the two tier boundaries, one handler at a time
NextTiers ==
    NextOver({1}, {"A0001"}, {2}, {3}, {19000, 25000, 60000},
             {20000, 26500, 27000, 65000, 66000})

SpecTiers == Init /\ [][NextTiers]_vars

\* main() builds the application without concurrent_updates and registers
\* every handler with the default block: the application awaits the handler
\* of one update to its end before it takes the next update.  Two items.
NextSeq ==
    \/ Quiet /\ Start({1}, ItemIds, {2}, {1, 3}, {19000}, {20000, 22000})
    \/ Resume({1})
    \/ next_update

SpecSeq == Init /\ [][NextSeq]_vars

\* the same dispatch with one item, two users who submit and one of them
\* bidding, so that a bidder has a row in users
NextSeqUsers ==
    \/ Quiet /\ Start({1}, {"A0001"}, {2, 3}, {3}, {19000}, {20000, 22000})
    \/ Resume({1})
    \/ next_update

SpecSeqUsers == Init /\ [][NextSeqUsers]_vars

\* ------------------------------------------------- properties
\* The current price, the tier increment and the minimum acceptable bid as
\* the specification defines them (sections 4.3 and GLOSSARY).
ClaimPrice(item) ==
    IF item.highest_bid = 0 THEN item.base_price ELSE item.highest_bid

ClaimTier(p) ==
    CASE p >= 50000 -> 5000
      [] p >= 20000 /\ p < 50000 -> 2000
      [] p < 20000 -> 1000

ClaimMinimum(item) == ClaimPrice(item) + ClaimTier(ClaimPrice(item))

\* this step committed a bid on item i: one row more in bids, for i
AcceptedBidOn(i) ==
    /\ Len(bids') = Len(bids) + 1
    /\ bids'[Len(bids')].item_id = i

NewBid == bids'[Len(bids')]

\* this step is a call of /bid that answered at once, without suspending
BidAnswered == reply'.op = "bid" /\ reply # reply' /\ pc' = pc

Rejections ==
    {"BiddingClosed", "BidderBanned", "ItemNotBiddable", "SelfBidForbidden",
     "BidTooLow"}

\* the rows of bids that belong to item i
BidsOf(i) == {k \in 1 .. Len(bids) : bids[k].item_id = i}

\* C1: every accepted bid sets highest_bid to the amount of the bid, which
\* is strictly greater than the value it replaces and than base_price; as
\* long as an item exists its highest_bid never decreases and never goes
\* back to NULL.
C1_HighestBidStrictlyIncreases ==
    [][\A i \in ItemIds :
         (items[i] # NoItem /\ items'[i] # NoItem) =>
            /\ items'[i].highest_bid >= items[i].highest_bid
            /\ (items[i].highest_bid # 0 => items'[i].highest_bid # 0)
            /\ (items'[i].highest_bid # items[i].highest_bid => AcceptedBidOn(i))
            /\ (AcceptedBidOn(i) =>
                  /\ items'[i].highest_bid = NewBid.amount
                  /\ NewBid.amount > items[i].highest_bid
                  /\ NewBid.amount > items[i].base_price)]_vars

\* an item whose second accepted bid has replaced the first
C1_Witness ==
    \E i \in ItemIds :
        /\ items[i] # NoItem
        /\ Cardinality(BidsOf(i)) >= 2
        /\ items[i].highest_bid = bids[Len(bids)].amount
        /\ items[i].highest_bid > bids[1].amount

\* C2: a bid is accepted only if its amount is at least p + tier(p) for the
\* current price p read before the bid is applied; a bid below that amount
\* is rejected and changes neither the items, nor the bids, nor the users.
C2_BelowThresholdRejectedUnchanged ==
    [][/\ \A i \in ItemIds :
            AcceptedBidOn(i) =>
                /\ items[i] # NoItem
                /\ NewBid.amount >= ClaimMinimum(items[i])
       /\ \A i \in ItemIds :
            (/\ BidAnswered
             /\ reply'.item_id = i
             /\ items[i] # NoItem
             /\ reply'.amount < ClaimMinimum(items[i])) =>
                /\ reply'.outcome \in Rejections
                /\ UNCHANGED <<items, bids, users>>]_vars

\* a bid above the current price and below the minimum has been rejected
C2_Witness ==
    /\ reply.op = "bid"
    /\ reply.outcome = "BidTooLow"
    /\ items[reply.item_id] # NoItem
    /\ items[reply.item_id].status = "approved"
    /\ reply.amount > ClaimPrice(items[reply.item_id])
    /\ reply.amount < ClaimMinimum(items[reply.item_id])

\* the bid of this step came from a bidder who passes every check but the
\* one on the amount, on item i
EligibleBidOn(i) ==
    /\ BidAnswered
    /\ reply'.item_id = i
    /\ bidding_open
    /\ items[i] # NoItem
    /\ items[i].status = "approved"
    /\ reply'.user # items[i].user_id
    /\ ~(users[reply'.user] # NoUser /\ users[reply'.user].is_banned)

\* C3: the required increment is 5000 from a current price of 50000 on,
\* 2000 from 20000 on and 1000 below, taken from the current price and not
\* from the amount: an eligible bid is turned down for its amount exactly
\* when it is below p + tier(p), and the message then names p + tier(p);
\* at p = 25000 a bid of 26500 is rejected and 27000 is not, at p = 65000 a
\* bid of 66000 is rejected with minimum 70000, at p = 19000 a bid of 20000
\* is not rejected.
C3_TierIncrement ==
    [][\A i \in ItemIds :
         /\ EligibleBidOn(i) =>
              LET p == ClaimPrice(items[i])
                  a == reply'.amount
              IN /\ (a < p + ClaimTier(p)) <=> (reply'.outcome = "BidTooLow")
                 /\ (a > p /\ a < p + ClaimTier(p)) => reply'.minimum = p + ClaimTier(p)
                 /\ (p = 25000 /\ a = 26500) =>
                        reply'.outcome = "BidTooLow" /\ reply'.minimum = 27000
                 /\ (p = 25000 /\ a = 27000) => reply'.outcome # "BidTooLow"
                 /\ (p = 65000 /\ a = 66000) =>
                        reply'.outcome = "BidTooLow" /\ reply'.minimum = 70000
                 /\ (p = 19000 /\ a = 20000) => reply'.outcome # "BidTooLow"
         /\ AcceptedBidOn(i) =>
              NewBid.amount >= ClaimPrice(items[i]) + ClaimTier(ClaimPrice(items[i]))]_vars

\* after accepted bids of 27000 (on a base price of 25000) and 65000, a bid
\* of 66000 has been rejected with minimum 70000
C3_Witness ==
    /\ reply.op = "bid"
    /\ reply.outcome = "BidTooLow"
    /\ reply.amount = 66000
    /\ reply.minimum = 70000
    /\ items[reply.item_id].base_price = 25000
    /\ items[reply.item_id].highest_bid = 65000
    /\ \E k \in 1 .. Len(bids) : bids[k].amount = 27000

\* C4: of two bids committed on the same item, the later one was validated
\* against the price the earlier one committed: it exceeds the earlier one
\* by at least the tier increment of the earlier amount, however the two
\* handlers interleave.
C4_SecondBidSeesFirst ==
    \A j, k \in 1 .. Len(bids) :
        (j < k /\ bids[j].item_id = bids[k].item_id) =>
            bids[k].amount >= bids[j].amount + ClaimTier(bids[j].amount)

\* two /bid handlers on the same item are in flight at once, both after
\* their commit
C4_Witness ==
    \E s, t \in Tasks :
        /\ s # t
        /\ local[s].op = "bid"
        /\ local[t].op = "bid"
        /\ local[s].item_id = local[t].item_id
        /\ local[s].user # local[t].user
        /\ Len(bids) >= 2

\* C5: a /bid made while bidding_open is false is answered BiddingClosed
\* and changes nothing; every bid that is committed is committed in a state
\* where bidding_open is true, and highest_bid changes in no other state.
C5_NoBidWhileClosed ==
    [][/\ (BidAnswered /\ ~bidding_open) =>
            /\ reply'.outcome = "BiddingClosed"
            /\ UNCHANGED <<db, conv, user_data, pc, local>>
       /\ \A i \in ItemIds :
            (\/ AcceptedBidOn(i)
             \/ /\ items[i] # NoItem
                /\ items'[i] # NoItem
                /\ items'[i].highest_bid # items[i].highest_bid) =>
                bidding_open /\ bidding_open']_vars

\* /bido is in its loop, bidding is closed, and a /bid handler that
\* committed before is still in flight
C5_Witness ==
    \E s, t \in Tasks :
        /\ local[s].op = "bido"
        /\ local[t].op = "bid"
        /\ ~bidding_open
        /\ items[local[t].item_id].highest_bid = local[t].amount

\* C6: an item is created only in a state where submissions_open is true
\* at the moment of the creation.
C6_ItemsCreatedOnlyWhileOpen ==
    [][\A i \in ItemIds :
         (items[i] = NoItem /\ items'[i] # NoItem) => submissions_open]_vars

\* the first precondition of place_bid that the bid of user u on item i
\* with amount a violates, in the order the specification gives
ClaimFirstViolated(u, i, a) ==
    IF ~bidding_open THEN "BiddingClosed"
    ELSE IF users[u] # NoUser /\ users[u].is_banned THEN "BidderBanned"
    ELSE IF items[i] = NoItem \/ items[i].status # "approved" THEN "ItemNotBiddable"
    ELSE IF u = items[i].user_id THEN "SelfBidForbidden"
    ELSE IF a < ClaimMinimum(items[i]) THEN "BidTooLow"
    ELSE "none"

\* C7: /bid checks bidding open, bidder not banned, item approved, bidder
\* not the owner, amount meets the increment, in this order, and answers
\* with the first check that fails, changing nothing; a bid is committed
\* only when no check fails.  A banned bidder is answered BidderBanned
\* whatever the item and the amount are.
C7_FirstViolatedPrecondition ==
    [][/\ BidAnswered =>
            LET first == ClaimFirstViolated(reply'.user, reply'.item_id,
                                            reply'.amount)
            IN /\ first # "none" =>
                     reply'.outcome = first /\ UNCHANGED <<db, pc, local>>
               /\ first = "none" => reply'.outcome \notin Rejections
               /\ (/\ bidding_open
                   /\ users[reply'.user] # NoUser
                   /\ users[reply'.user].is_banned) =>
                       reply'.outcome = "BidderBanned"
       /\ \A i \in ItemIds :
            AcceptedBidOn(i) =>
                ClaimFirstViolated(NewBid.user_id, i, NewBid.amount) = "none"]_vars

\* a banned bidder has been answered BidderBanned for a bid that meets the
\* increment, on an approved item of another user, while bidding is open
C7_Witness ==
    /\ reply.op = "bid"
    /\ reply.outcome = "BidderBanned"
    /\ bidding_open
    /\ items[reply.item_id] # NoItem
    /\ items[reply.item_id].status = "approved"
    /\ items[reply.item_id].user_id # reply.user
    /\ reply.amount >= ClaimMinimum(items[reply.item_id])

\* no item has its owner as highest bidder
NoOwnerIsHighestBidder ==
    \A i \in ItemIds :
        items[i] # NoItem => items[i].highest_bidder_id # items[i].user_id

\* C8 as stated: a /bid of the owner of the item is always answered
\* SelfBidForbidden, whatever the amount, and no item has its owner as
\* highest bidder.
C8_OwnerAlwaysSelfBidForbidden ==
    /\ []NoOwnerIsHighestBidder
    /\ [][\A i \in ItemIds :
            (/\ BidAnswered
             /\ reply'.item_id = i
             /\ items[i] # NoItem
             /\ reply'.user = items[i].user_id) =>
                reply'.outcome = "SelfBidForbidden"]_vars

\* C8: a /bid of the owner of the item is never accepted and changes
\* nothing; it is answered SelfBidForbidden, whatever the amount, when
\* bidding is open, the owner is not banned and the item is approved (the
\* checks that come before the one on the owner); and no item has its
\* owner as highest bidder.
C8_OwnerNeverHighestBidder ==
    /\ []NoOwnerIsHighestBidder
    /\ [][\A i \in ItemIds :
            /\ (/\ BidAnswered
                /\ reply'.item_id = i
                /\ items[i] # NoItem
                /\ reply'.user = items[i].user_id) =>
                   /\ reply'.outcome \in Rejections
                   /\ UNCHANGED <<db, pc, local>>
                   /\ (/\ bidding_open
                       /\ ~users[reply'.user].is_banned
                       /\ items[i].status = "approved") =>
                          reply'.outcome = "SelfBidForbidden"
            /\ AcceptedBidOn(i) => NewBid.user_id # items[i].user_id]_vars

\* the owner of an approved item has been answered SelfBidForbidden for a
\* bid that meets the increment
C8_Witness ==
    /\ reply.op = "bid"
    /\ reply.outcome = "SelfBidForbidden"
    /\ items[reply.item_id] # NoItem
    /\ items[reply.item_id].user_id = reply.user
    /\ reply.amount >= ClaimMinimum(items[reply.item_id])

\* C9: an existing item has a highest_bid exactly when bids holds a row for
\* it; highest_bid is then the largest amount of these rows and
\* highest_bidder_id the bidder of the row with that amount.
C9_HighestBidMatchesHistory ==
    \A i \in ItemIds :
        items[i] # NoItem =>
            /\ (items[i].highest_bid # 0) <=> (BidsOf(i) # {})
            /\ \A k \in BidsOf(i) : bids[k].amount <= items[i].highest_bid
            /\ BidsOf(i) # {} =>
                 \E k \in BidsOf(i) :
                     /\ bids[k].amount = items[i].highest_bid
                     /\ bids[k].user_id = items[i].highest_bidder_id

\* one item with two rows in bids and another item with one
C9_Witness ==
    \E i, j \in ItemIds :
        /\ i # j
        /\ items[i] # NoItem
        /\ items[j] # NoItem
        /\ Cardinality(BidsOf(i)) = 2
        /\ Cardinality(BidsOf(j)) = 1

\* C10: when /bid has told the bidder that processing the bid failed, the
\* bid is not applied: bids holds no row for it and the item does not show
\* it as highest bid.
C10_FailureMeansNotApplied ==
    (reply.op = "bid" /\ reply.outcome = "BidProcessingFailed") =>
        /\ \A k \in 1 .. Len(bids) :
              ~(/\ bids[k].item_id = reply.item_id
                /\ bids[k].user_id = reply.user
                /\ bids[k].amount = reply.amount)
        /\ items[reply.item_id] # NoItem =>
              ~(/\ items[reply.item_id].highest_bid = reply.amount
                /\ items[reply.item_id].highest_bidder_id = reply.user)

\* C11: once a bid is committed, a failure to update the channel listing
\* or to deliver a notice neither undoes the bid nor makes the handler
\* report a failure: the handler goes on to tell the bidder that the bid
\* was placed, and items, bids and users stay as committed.
C11_DeliveryFailureKeepsBidPlaced ==
    [][\A t \in Tasks :
         (local[t].op = "bid" /\ pc'[t] # pc[t]) =>
            /\ UNCHANGED <<items, bids, users>>
            /\ pc[t] = "bid_edit" =>
                 /\ pc'[t] = "bid_notify"
                 /\ reply'.outcome # "BidProcessingFailed"]_vars

\* the bids-placed counter of user u, 0 for a user without a row
ClaimBidsCount(us, u) == IF us[u] = NoUser THEN 0 ELSE us[u].bids_count

\* C12: every accepted bid leaves the bidder with a row in users whose
\* bids_count is one more than before (counting from 0 for a bidder who
\* had no row), and changes no other user.
C12_AcceptedBidCountsOnce ==
    [][\A i \in ItemIds :
         AcceptedBidOn(i) =>
            /\ users'[NewBid.user_id] # NoUser
            /\ ClaimBidsCount(users', NewBid.user_id) =
                   ClaimBidsCount(users, NewBid.user_id) + 1
            /\ \A u \in Users \ {NewBid.user_id} : users'[u] = users[u]]_vars

\* this step is a turn of the loop of /bido that reconciles item i
BidoSold(i) ==
    /\ reply # reply'
    /\ reply'.op = "bido"
    /\ reply'.outcome = "sold"
    /\ reply'.item_id = i

\* the items /bido has to sell: approved, with a highest bidder
ClaimSellable ==
    {i \in ItemIds : /\ items[i] # NoItem
                     /\ items[i].status = "approved"
                     /\ items[i].highest_bidder_id # 0}

\* C13: /bido of an admin closes bidding and takes up exactly the approved
\* items that have a highest bidder; each turn of its loop sets the item
\* to sold and writes to the winner (highest_bidder_id) and to the seller
\* (the owner) with the winning amount highest_bid; and the loop ends only
\* when every item it took up has had its turn.
C13_CloseBiddingSellsAndReconciles ==
    [][/\ \A t \in Tasks :
            /\ (pc[t] = "idle" /\ local'[t].op = "bido") =>
                  /\ ~bidding_open'
                  /\ DOMAIN local'[t].rows \cup ({local'[t].item} \ {""}) =
                         ClaimSellable
            /\ (pc[t] # "bido_done" /\ pc'[t] = "bido_done") =>
                  DOMAIN local'[t].rows = {}
            /\ (pc[t] = "bido_sold" /\ local'[t] # local[t]) =>
                  /\ items[local[t].item] # NoItem
                  /\ items'[local[t].item].status = "sold"
       /\ \A i \in ItemIds :
            BidoSold(i) =>
                /\ items[i] # NoItem
                /\ reply'.amount = items[i].highest_bid
                /\ reply'.notified =
                      {items[i].highest_bidder_id, items[i].user_id}]_vars

BidoStep ==
    \/ reply # reply' /\ reply'.op = "bido"
    \/ \E t \in Tasks :
          /\ <<pc[t], local[t]>> # <<pc'[t], local'[t]>>
          /\ (local[t].op = "bido" \/ local'[t].op = "bido")

\* C15: no step of /bido changes an approved item that has no bid; a /bido
\* that finishes leaves no approved item with a bid behind, and a /bido
\* that starts when there is none takes up no item, so that a second
\* /bido directly after a first sells nothing and reports nothing.
C15_CloseBiddingLeavesUnbidItems ==
    [][/\ BidoStep =>
            \A i \in ItemIds :
                (/\ items[i] # NoItem
                 /\ items[i].status = "approved"
                 /\ items[i].highest_bidder_id = 0) => items'[i] = items[i]
       /\ \A t \in Tasks :
            /\ (pc[t] = "bido_done" /\ pc'[t] = "idle") => ClaimSellable' = {}
            /\ (pc[t] = "idle" /\ local'[t].op = "bido" /\ ClaimSellable = {}) =>
                  pc'[t] = "bido_done"
       /\ \A i \in ItemIds : BidoSold(i) => i \in ClaimSellable]_vars

\* /bido has finished; one item is sold and another, approved and without
\* a bid, is as it was approved
C15_Witness ==
    /\ reply.op = "bido"
    /\ reply.outcome = "closed"
    /\ \E i, j \in ItemIds :
          /\ items[i] # NoItem
          /\ items[i].status = "sold"
          /\ items[j] # NoItem
          /\ items[j].status = "approved"
          /\ items[j].highest_bid = 0
          /\ items[j].highest_bidder_id = 0

\* the status changes the specification allows
ClaimTransitions ==
    {<<"pending", "approved">>, <<"pending", "rejected">>, <<"approved", "sold">>}

\* the terminal statuses
ClaimTerminal == {"sold", "rejected", "ended", "cancelled"}

\* C16: an item is created pending; its status changes only from pending
\* to approved, from pending to rejected and from approved to sold; an
\* item in a terminal status is changed in no field and only a cleanup
\* removes it, and only items in a terminal status are removed.
C16_StatusTransitions ==
    [][\A i \in ItemIds :
         /\ (items[i] = NoItem /\ items'[i] # NoItem) =>
               items'[i].status = "pending"
         /\ (items[i] # NoItem /\ items'[i] # NoItem) =>
               /\ \/ items'[i].status = items[i].status
                  \/ <<items[i].status, items'[i].status>> \in ClaimTransitions
               /\ items[i].status \in ClaimTerminal => items'[i] = items[i]
         /\ (items[i] # NoItem /\ items'[i] = NoItem) =>
               /\ items[i].status \in ClaimTerminal
               /\ reply'.op = "endo_callback"]_vars

\* one item has gone from pending over approved to sold, another from
\* pending to rejected
C16_Witness ==
    \E i, j \in ItemIds :
        /\ items[i] # NoItem
        /\ items[i].status = "sold"
        /\ items[i].approval_time # 0
        /\ items[j] # NoItem
        /\ items[j].status = "rejected"

\* this step is the answer to an admin who pressed approve or reject on
\* item id i
DecideAnswered(i) ==
    /\ reply # reply'
    /\ reply'.op = "decide"
    /\ reply'.item_id = i
    /\ reply'.user \in ADMIN_IDS

\* C17: a decision on an id without an item is answered NotFound, one on
\* an item that is not pending AlreadyDecided, and neither changes an item
\* or a user; an item is approved or rejected only from pending, so it is
\* decided at most once however the handlers interleave.
C17_DecideOnlyPending ==
    [][\A i \in ItemIds :
         DecideAnswered(i) =>
            /\ items[i] = NoItem =>
                  reply'.outcome = "NotFound" /\ UNCHANGED <<items, users>>
            /\ (items[i] # NoItem /\ items[i].status # "pending") =>
                  reply'.outcome = "AlreadyDecided" /\ UNCHANGED <<items, users>>
            /\ reply'.outcome \in {"approved", "rejected"} =>
                  (items[i] # NoItem /\ items[i].status = "pending")]_vars

\* an admin has pressed a button on an item that is approved already, and
\* the owner still counts one approval
C17_Witness ==
    /\ reply.op = "decide"
    /\ reply.outcome = "AlreadyDecided"
    /\ items[reply.item_id] # NoItem
    /\ items[reply.item_id].status = "approved"
    /\ users[items[reply.item_id].user_id].approved_count = 1
    /\ users[items[reply.item_id].user_id].rejected_count = 0

\* C18: the decision of an admin on a pending item either approves it
\* (status approved, approval_time set, the owner's approved_count one
\* more) or rejects it (status rejected, approval_time still NULL, the
\* owner's rejected_count one more); nothing else of the item, no other
\* item, no bid, no other counter and no other user changes.
C18_DecideFrame ==
    [][\A i \in ItemIds :
         (DecideAnswered(i) /\ items[i] # NoItem /\ items[i].status = "pending") =>
            LET o == items[i].user_id IN
            /\ reply'.outcome \in {"approved", "rejected"}
            /\ reply'.outcome = "approved" =>
                  /\ items'[i].approval_time # 0
                  /\ items'[i] = [items[i] EXCEPT
                                     !.status = "approved",
                                     !.approval_time = items'[i].approval_time]
                  /\ users' = [users EXCEPT ![o] =
                                  [@ EXCEPT !.approved_count = @ + 1]]
            /\ reply'.outcome = "rejected" =>
                  /\ items'[i] = [items[i] EXCEPT !.status = "rejected"]
                  /\ items'[i].approval_time = 0
                  /\ users' = [users EXCEPT ![o] =
                                  [@ EXCEPT !.rejected_count = @ + 1]]
            /\ \A j \in ItemIds \ {i} : items'[j] = items[j]
            /\ bids' = bids
            /\ UNCHANGED <<submissions_open, bidding_open>>]_vars

\* an item has just been rejected while another item of the same owner is
\* approved: one approval and one rejection are counted
C18_Witness ==
    /\ reply.op = "decide"
    /\ reply.outcome = "rejected"
    /\ items[reply.item_id].status = "rejected"
    /\ items[reply.item_id].approval_time = 0
    /\ \E j \in ItemIds \ {reply.item_id} :
          /\ items[j] # NoItem
          /\ items[j].status = "approved"
          /\ items[j].approval_time # 0
          /\ items[j].user_id = items[reply.item_id].user_id
          /\ users[items[j].user_id].approved_count = 1
          /\ users[items[j].user_id].rejected_count = 1

\* the ids of the items that exist
ClaimExisting(its) == {i \in ItemIds : its[i] # NoItem}

\* C19: no two existing items have the same id: a submission leaves every
\* existing item as it is, whatever id was drawn for it, and a submission
\* that is committed adds one item under an id no existing item has.
C19_ItemIdsUnique ==
    [][(reply # reply' /\ reply'.op = "submit") =>
          /\ \A i \in ItemIds : items[i] # NoItem => items'[i] = items[i]
          /\ users' # users =>
                Cardinality(ClaimExisting(items')) =
                    Cardinality(ClaimExisting(items)) + 1]_vars

\* the id drawn for a submission was the id of an existing item
C19_Witness ==
    /\ reply.op = "submit"
    /\ reply.outcome = "IntegrityError"
    /\ ClaimExisting(items) # {}
    /\ ClaimExisting(items) # ItemIds

\* C20: a submission made while submissions are open and an id is free
\* ends with a new pending item, also when the id drawn first is taken.
C20_SubmitRetriesOnCollision ==
    [][(/\ reply # reply'
        /\ reply'.op = "submit"
        /\ submissions_open
        /\ ClaimExisting(items) # ItemIds) =>
           \E i \in ItemIds :
               /\ items[i] = NoItem
               /\ items'[i] # NoItem
               /\ items'[i].status = "pending"]_vars

\* this step is a confirmed cleanup
ClaimCleanup ==
    /\ reply # reply'
    /\ reply'.op = "endo_callback"
    /\ reply'.outcome = "cleaned"

\* the bid records of item i in rows, in their order
ClaimRowsOf(rows, i) == SelectSeq(rows, LAMBDA b : b.item_id = i)

\* C21: a confirmed cleanup deletes every item whose status is sold,
\* rejected, ended or cancelled and all bid records of these items, and
\* leaves every other item with all its fields and all its bid records as
\* they were.
C21_CleanupFrame ==
    [][ClaimCleanup =>
          \A i \in ItemIds :
              IF items[i] # NoItem /\ items[i].status \in ClaimTerminal
              THEN /\ items'[i] = NoItem
                   /\ ClaimRowsOf(bids', i) = <<>>
              ELSE /\ items'[i] = items[i]
                   /\ ClaimRowsOf(bids', i) = ClaimRowsOf(bids, i)]_vars

\* a cleanup has deleted an item that was sold (its owner submitted two
\* items and none was rejected) and has kept an approved item and its bid
C21_Witness ==
    /\ reply.op = "endo_callback"
    /\ reply.outcome = "cleaned"
    /\ \E i, j \in ItemIds :
          /\ items[i] = NoItem
          /\ items[j] # NoItem
          /\ items[j].status = "approved"
          /\ ClaimRowsOf(bids, j) # <<>>
          /\ users[items[j].user_id].submissions_count = 2
          /\ users[items[j].user_id].rejected_count = 0

\* C22: in every reachable state every bid record references an existing
\* item: the cleanup deletes an item and its bid records in one step, so
\* no other handler, whenever it runs, finds the records of a deleted item.
C22_BidsReferenceItems ==
    \A k \in 1 .. Len(bids) : items[bids[k].item_id] # NoItem

\* a cleanup has run and nothing is left of an item that was submitted
\* and not rejected, so that it was sold and had a bid record
C22_Witness ==
    /\ reply.op = "endo_callback"
    /\ reply.outcome = "cleaned"
    /\ ClaimExisting(items) = {}
    /\ bids = <<>>
    /\ \E u \in Users :
          /\ users[u] # NoUser
          /\ users[u].submissions_count = 1
          /\ users[u].rejected_count = 0

\* this step is the answer to the phase command op
ClaimPhaseAnswer(op) == reply # reply' /\ reply'.op = op

ClaimBidNotices ==
    /\ reply # reply'
    /\ reply'.op = "bid"
    /\ reply'.notified # {}

\* C24: a notice is sent only after the change it tells of is committed:
\* the notices of a bid are sent when the bid record is in the history and
\* the item carries the bid or a later one, and the notices of /bido that
\* an item was won and sold are sent when the status of the item is sold.
C24_NoticesFollowCommit ==
    [][/\ ClaimBidNotices =>
            /\ \E k \in 1 .. Len(bids) :
                  /\ bids[k].item_id = reply'.item_id
                  /\ bids[k].user_id = reply'.user
                  /\ bids[k].amount = reply'.amount
            /\ items[reply'.item_id].highest_bid >= reply'.amount
       /\ \A i \in ItemIds :
            BidoSold(i) => (items'[i] # NoItem /\ items'[i].status = "sold")]_vars

\* the items a handler of /bido still has to set to sold: the rows its loop
\* has not come to and the row whose notices it is sending
ClaimOnList(l) ==
    IF l.op = "bido" THEN DOMAIN l.rows \cup ({l.item} \ {""}) ELSE {}

\* C25: a fault in the turn of one item does not stop /bido: the handler
\* takes up every item that is approved with a bid, never ends in an
\* error, drops an item from its list only by setting it to sold, and when
\* it has finished no approved item with a bid is left.
C25_FaultDoesNotBlockBatch ==
    [][/\ (reply # reply' /\ reply'.op = "bido") =>
            reply'.outcome \in {"AdminOnly", "sold", "closed"}
       /\ \A t \in Tasks :
            /\ (pc[t] = "idle" /\ local'[t].op = "bido") =>
                  ClaimOnList(local'[t]) = ClaimSellable
            /\ \A i \in ClaimOnList(local[t]) :
                  \/ i \in ClaimOnList(local'[t])
                  \/ items'[i].status = "sold"
            /\ (pc[t] = "bido_done" /\ pc'[t] = "idle") =>
                  /\ reply'.outcome = "closed"
                  /\ ClaimSellable' = {}]_vars

\* /bido is in the turn of a second item, whose winner gets no notice
\* because the notice could not be built, after the turn of a first item
\* that went the same way: the first item is sold
C25_Witness ==
    /\ reply.op = "bido"
    /\ reply.outcome = "sold"
    /\ items[reply.item_id].status = "approved"
    /\ items[reply.item_id].highest_bidder_id \notin reply.notified
    /\ \E i \in ItemIds \ {reply.item_id} :
          /\ items[i] # NoItem
          /\ items[i].status = "sold"
          /\ items[i].highest_bidder_id # 0

C27_RejectionNamesMinimum ==
    [][(BidAnswered /\ reply'.outcome = "BidTooLow") =>
          /\ items[reply'.item_id] # NoItem
          /\ reply'.amount < ClaimMinimum(items[reply'.item_id])
          /\ reply'.minimum = ClaimMinimum(items[reply'.item_id])]_vars

\* the users the notices of an accepted bid of user u have to go to, given
\* the highest bidder the item had before the bid and its owner
ClaimNotified(previous, owner, u) ==
    (IF previous # 0 /\ previous # u THEN {previous} ELSE {}) \cup {owner}

\* C28: the handler of an accepted bid keeps the highest bidder the item
\* had immediately before the bid, and when it ends it has sent the outbid
\* notice to that bidder exactly if there was one and it is not the new
\* bidder, and the notice of the new bid to the owner of the item.
C28_OutbidNoticeAddressing ==
    [][\A t \in Tasks :
         /\ (pc[t] = "idle" /\ local'[t].op = "bid") =>
               /\ local'[t].item.highest_bidder_id =
                      items[local'[t].item_id].highest_bidder_id
               /\ local'[t].item.user_id = items[local'[t].item_id].user_id
         /\ (local[t].op = "bid" /\ pc'[t] = "idle") =>
               reply'.notified =
                   ClaimNotified(local[t].item.highest_bidder_id,
                                 local[t].item.user_id, local[t].user)]_vars

\* C29: bids are only on items that were approved: an item that is pending
\* or rejected has no highest_bid and no bid record, an item that is sold
\* has a highest bidder, and while an item is sold its highest_bid and
\* highest_bidder_id do not change.
C29_BidsOnlyOnApproved ==
    /\ [](\A i \in ItemIds :
             items[i] # NoItem =>
                /\ items[i].status \in {"pending", "rejected"} =>
                      /\ items[i].highest_bid = 0
                      /\ BidsOf(i) = {}
                /\ items[i].status = "sold" => items[i].highest_bidder_id # 0)
    /\ [][\A i \in ItemIds :
             (/\ items[i] # NoItem
              /\ items[i].status = "sold"
              /\ items'[i] # NoItem) =>
                 /\ items'[i].status = "sold"
                 /\ items'[i].highest_bid = items[i].highest_bid
                 /\ items'[i].highest_bidder_id = items[i].highest_bidder_id]_vars

\* a bid on a pending item has been refused: that item is pending without
\* a bid, and another item is sold with the amount and the bidder of one
\* of its bid records
C29_Witness ==
    /\ reply.op = "bid"
    /\ reply.outcome = "ItemNotBiddable"
    /\ items[reply.item_id] # NoItem
    /\ items[reply.item_id].status = "pending"
    /\ \E i \in ItemIds :
          /\ items[i] # NoItem
          /\ items[i].status = "sold"
          /\ \E k \in BidsOf(i) :
                /\ bids[k].amount = items[i].highest_bid
                /\ bids[k].user_id = items[i].highest_bidder_id

\* the records of rows whose item is in its
ClaimKept(rows, its) == SelectSeq(rows, LAMBDA b : its[b.item_id] # NoItem)

\* C30: the bid history is append-only: a step leaves it as it is, or is
\* an accepted bid that appends its record, or is a confirmed cleanup,
\* which removes exactly the records of the items it deletes and changes
\* no other; so a record stays in the history, unchanged, for as long as
\* its item exists.
C30_BidHistoryAppendOnly ==
    [][\/ bids' = bids
       \/ /\ Len(bids') = Len(bids) + 1
          /\ SubSeq(bids', 1, Len(bids)) = bids
          /\ \E t \in Tasks :
                /\ pc[t] = "idle" /\ pc'[t] = "bid_edit"
                /\ bids'[Len(bids')].item_id = local'[t].item_id
                /\ bids'[Len(bids')].user_id = local'[t].user
                /\ bids'[Len(bids')].amount = local'[t].amount
       \/ /\ ClaimCleanup
          /\ bids' = ClaimKept(bids, items')
          /\ \A k \in 1 .. Len(bids) :
                items'[bids[k].item_id] = NoItem =>
                    /\ items[bids[k].item_id] # NoItem
                    /\ items[bids[k].item_id].status \in ClaimTerminal]_vars

\* a cleanup has deleted a sold item and its bid record; the two records
\* of the approved item it kept are all of the history
C30_Witness ==
    /\ reply.op = "endo_callback"
    /\ reply.outcome = "cleaned"
    /\ Len(bids) = 2
    /\ \E i, j \in ItemIds :
          /\ items[i] = NoItem
          /\ items[j] # NoItem
          /\ items[j].status = "approved"
          /\ BidsOf(j) = {1, 2}
          /\ items[j].highest_bid = bids[2].amount
          /\ users[items[j].user_id].submissions_count = 2
          /\ users[items[j].user_id].rejected_count = 0

\* this step is /bido of an admin going into its loop
ClaimBidoStart == \E t \in Tasks : pc[t] = "idle" /\ local'[t].op = "bido"

\* C31: both phase flags start false, and a step that changes one of them
\* is /starto, /submito or /bido carried out: a submission, a decision, a
\* bid, accepted or rejected, a ban or unban and a cleanup leave both as
\* they are.
C31_OnlyPhaseCommandsWriteFlags ==
    /\ ~submissions_open /\ ~bidding_open
    /\ [][<<submissions_open, bidding_open>>' # <<submissions_open, bidding_open>> =>
             \/ ClaimPhaseAnswer("starto") /\ reply'.outcome = "ok"
             \/ ClaimPhaseAnswer("submito") /\ reply'.outcome = "ok"
             \/ ClaimBidoStart]_vars

\* a cleanup has deleted an item after /bido had closed bidding: the
\* flags are as the phase commands left them, submissions open and
\* bidding closed
C31_Witness ==
    /\ reply.op = "endo_callback"
    /\ reply.outcome = "cleaned"
    /\ submissions_open /\ ~bidding_open
    /\ ClaimExisting(items) = {}
    /\ Submitted >= 1

\* C32: cleanup is two-step: the request /endo deletes nothing, the cancel
\* answer leaves every item and bid record as it is, and a step that
\* deletes an item or a bid record is a confirm answer given by an admin.
C32_CleanupTwoStep ==
    [][/\ (reply # reply' /\ reply'.op = "endo") => UNCHANGED <<items, bids>>
       /\ (reply # reply' /\ reply'.op = "endo_callback"
             /\ reply'.outcome = "cancelled") => UNCHANGED <<items, bids>>
       /\ (\/ \E i \in ItemIds : items[i] # NoItem /\ items'[i] = NoItem
           \/ Len(bids') < Len(bids)) =>
             /\ ClaimCleanup
             /\ reply'.user \in ADMIN_IDS]_vars

\* this step answers one of ops to a user who is not an admin
ClaimAnswerToNonAdmin(ops) ==
    /\ reply # reply'
    /\ reply'.op \in ops
    /\ reply'.op = "bido" => reply'.outcome = "AdminOnly"
    /\ reply'.user \notin ADMIN_IDS

\* C33: a decision, /starto, /submito, /bido, /aban, /unban and the answer
\* to the cleanup buttons change no item, no bid record, no user and no
\* phase flag when the user they come from is not an admin.
C33_NonAdminChangesNothing ==
    [][ClaimAnswerToNonAdmin({"decide", "starto", "submito", "bido", "aban",
                              "unban", "endo_callback"}) =>
          UNCHANGED db]_vars

\* the ban of user u is in force
ClaimBanned(us, u) == us[u] # NoUser /\ us[u].is_banned

\* this step is op, /aban or /unban, carried out for an admin and naming u
ClaimBanStep(op, u) ==
    /\ reply # reply'
    /\ reply'.op = op
    /\ reply'.outcome # "AdminOnly"
    /\ u \in reply'.notified

\* C34: from the /aban of an admin that names u until an /unban that names
\* u, every bid of u is rejected and changes nothing, whether or not u had
\* a row in users: the ban is in force after the /aban, stays in force in
\* every step that is no /unban of u, and while it is in force a bid of u
\* is rejected without a change.
C34_BanBlocksBids ==
    [][\A u \in Users :
         /\ ClaimBanStep("aban", u) => ClaimBanned(users', u)
         /\ (ClaimBanned(users, u) /\ ~ClaimBanStep("unban", u)) =>
               ClaimBanned(users', u)
         /\ (ClaimBanned(users, u) /\ BidAnswered /\ reply'.user = u) =>
               /\ reply'.outcome \in Rejections
               /\ UNCHANGED db
         /\ ClaimBanned(users, u) =>
               ~(\E t \in Tasks : pc[t] = "idle" /\ local'[t].op = "bid"
                                   /\ local'[t].user = u)]_vars

\* C35: a bid that meets every precondition (bidding open, bidder not
\* banned and not the owner, item approved, amount at least the current
\* price plus the increment of its tier) is never rejected: if the handler
\* answers at once, it is because the transaction raised, and nothing has
\* changed; otherwise the bid is stored, and the item carries the amount
\* and the bidder.  Bidding may have been closed and reopened before.
C35_AcceptanceComplete ==
    [][/\ \A i \in ItemIds :
            (EligibleBidOn(i) /\ reply'.amount >= ClaimMinimum(items[i])) =>
                /\ reply'.outcome \notin Rejections
                /\ reply'.outcome = "BidProcessingFailed"
                /\ UNCHANGED db
       /\ \A t \in Tasks :
            (pc[t] = "idle" /\ local'[t].op = "bid") =>
                LET i == local'[t].item_id IN
                /\ bidding_open
                /\ items[i] # NoItem
                /\ items[i].status = "approved"
                /\ local'[t].amount >= ClaimMinimum(items[i])
                /\ items'[i] = [items[i] EXCEPT
                                  !.highest_bid = local'[t].amount,
                                  !.highest_bidder_id = local'[t].user,
                                  !.highest_bidder_name = items'[i].highest_bidder_name]
                /\ NewBid.item_id = i
                /\ NewBid.amount = local'[t].amount]_vars

\* a bid on an approved item has just been stored while another item is
\* sold: /bido had closed bidding, /starto has reopened it, and the item
\* that was not sold takes the bid
C35_Witness ==
    /\ bidding_open
    /\ \E t \in Tasks, i \in ItemIds :
          /\ pc[t] = "bid_edit"
          /\ local[t].item_id # i
          /\ items[i] # NoItem
          /\ items[i].status = "sold"
          /\ items[local[t].item_id].status = "approved"
          /\ items[local[t].item_id].highest_bid = local[t].amount
          /\ items[local[t].item_id].highest_bidder_id = local[t].user
          /\ local[t].item.highest_bid = 0

\* C36: the minimum the bid prompt advertises for an approved item is the
\* threshold of /bid in the same state: for every user who may bid on the
\* item (bidding open, not banned, not the owner) a bid of the advertised
\* minimum passes every check and a bid of one less is rejected as too
\* low, and the minimum is the current price plus the increment of its
\* tier.
C36_PromptMinimumIsThreshold ==
    [][(reply # reply' /\ reply'.op = "bid_prompt"
          /\ reply'.outcome = "prompt") =>
          LET i == reply'.item_id IN
          /\ items[i] # NoItem
          /\ items[i].status = "approved"
          /\ UNCHANGED db
          /\ reply'.minimum = ClaimMinimum(items[i])
          /\ \A u \in Users :
                (ClaimFirstViolated(u, i, reply'.minimum) = "none") =>
                    /\ BidOutcome(u, i, reply'.minimum) = "ok"
                    /\ BidOutcome(u, i, reply'.minimum - 1)
                          \in {"BidTooLow", "BidNotHigher"}]_vars

\* the prompt has advertised 22000 for an item whose price a bid has
\* raised to 20000, where the increment is that of the second tier, while
\* bidding is open
C36_Witness ==
    /\ reply.op = "bid_prompt"
    /\ reply.outcome = "prompt"
    /\ bidding_open
    /\ items[reply.item_id].highest_bid = 20000
    /\ reply.minimum = 22000

\* C37: the closing commands each write one flag only: no answer of
\* /submito changes bidding_open and no step of /bido changes
\* submissions_open, while a /starto that changes a flag leaves both open.
C37_ClosingCommandsIndependent ==
    [][/\ ClaimPhaseAnswer("submito") => bidding_open' = bidding_open
       /\ BidoStep => submissions_open' = submissions_open
       /\ (ClaimPhaseAnswer("starto")
             /\ <<submissions_open, bidding_open>>' #
                    <<submissions_open, bidding_open>>) =>
             (submissions_open' /\ bidding_open')]_vars

\* /bido has run to its end on an open auction: submissions are open and
\* bidding is closed
C37_Witness ==
    /\ reply.op = "bido"
    /\ reply.outcome = "closed"
    /\ submissions_open
    /\ ~bidding_open

\* the counter field of user u, 0 for a user without a row
ClaimCounter(us, u, field) == IF us[u] = NoUser THEN 0 ELSE us[u][field]

\* the items of user u this step creates
ClaimCreated(u) ==
    {i \in ItemIds : items[i] = NoItem /\ items'[i] # NoItem
                     /\ items'[i].user_id = u}

\* the items of user u this step takes from pending to status
ClaimDecided(u, status) ==
    {i \in ItemIds : /\ items[i] # NoItem /\ items'[i] # NoItem
                     /\ items[i].user_id = u
                     /\ items[i].status = "pending"
                     /\ items'[i].status = status}

\* C38: for every user, approved counter + rejected counter is at most the
\* submissions counter, and every step adds to the submissions counter
\* the number of items of the user it creates (nothing for a submission
\* that creates none), to the approved counter the number of the user's
\* items it approves and to the rejected counter the number it rejects.
C38_CountersMatchHistory ==
    /\ [](\A u \in Users :
             ClaimCounter(users, u, "approved_count")
               + ClaimCounter(users, u, "rejected_count")
                 <= ClaimCounter(users, u, "submissions_count"))
    /\ [][\A u \in Users :
             /\ ClaimCounter(users', u, "submissions_count") =
                   ClaimCounter(users, u, "submissions_count")
                     + Cardinality(ClaimCreated(u))
             /\ ClaimCounter(users', u, "approved_count") =
                   ClaimCounter(users, u, "approved_count")
                     + Cardinality(ClaimDecided(u, "approved"))
             /\ ClaimCounter(users', u, "rejected_count") =
                   ClaimCounter(users, u, "rejected_count")
                     + Cardinality(ClaimDecided(u, "rejected"))]_vars

\* a user has submitted two items, one was rejected and the other is
\* approved
C38_Witness ==
    \E u \in Users :
        /\ users[u] # NoUser
        /\ users[u].submissions_count = 2
        /\ users[u].approved_count = 1
        /\ users[u].rejected_count = 1
        /\ \E i \in ItemIds :
              /\ items[i].status = "approved" /\ items[i].user_id = u

\* the statuses the handlers write
ClaimWritten == {"pending", "approved", "rejected", "sold"}

\* C39: in every reachable state every existing item has status pending,
\* approved, rejected or sold, never ended or cancelled, and every item a
\* cleanup deletes was sold or rejected.
C39_NeverEndedOrCancelled ==
    /\ [](\A i \in ItemIds : items[i] # NoItem => items[i].status \in ClaimWritten)
    /\ [][ClaimCleanup =>
            \A i \in ItemIds :
                (items[i] # NoItem /\ items'[i] = NoItem) =>
                    items[i].status \in {"sold", "rejected"}]_vars

\* both items of a user, one approved and one rejected, are gone after a
\* cleanup
C39_Witness ==
    /\ reply.op = "endo_callback"
    /\ reply.outcome = "cleaned"
    /\ ClaimExisting(items) = {}
    /\ \E u \in Users :
          /\ users[u] # NoUser
          /\ users[u].approved_count = 1
          /\ users[u].rejected_count = 1

\* C40: the wins counter of every user is 0 in every reachable state, and
\* no step of /bido changes a counter of any user.
C40_WinsNeverCounted ==
    /\ [](\A u \in Users : users[u] # NoUser => users[u].wins_count = 0)
    /\ [][BidoStep => users' = users]_vars

\* /bido has sold an item to a user who has a record, and the wins counter
\* of the record is 0
C40_Witness ==
    \E i \in ItemIds, u \in Users :
        /\ items[i] # NoItem
        /\ items[i].status = "sold"
        /\ items[i].highest_bidder_id = u
        /\ users[u] # NoUser
        /\ users[u].wins_count = 0
====
